---- MODULE Spec2Model ----
(***************************************************************************)
(* Model of package mirror (mirror.go): the reflect-driven deep copy       *)
(* DeepCopyInto(target).SetIgnoreZeroValues(b).SetIgnoreUnexported(b)      *)
(* .From(src).                                                             *)
(*                                                                         *)
(* Go memory is a heap of objects addressed by 1..Len(heap): cells made by *)
(* new(T) or &x, slice backing arrays and map objects.  A reflect.Value is *)
(* a handle: either an addressable location (object address + path of      *)
(* field/element indices) or a detached value, with reflect's flagAddr and *)
(* flagRO.  Inputs are Go values as composite literals build them: every   *)
(* pointer, slice and map has storage of its own, and the source and the   *)
(* destination share none.                                                 *)
(***************************************************************************)
EXTENDS Integers, Sequences, FiniteSets, TLC

\* longest slice in an input
MaxLen == 1
\* number of From calls made on one DeepCopy object
MaxCalls == 2

\* map keys (map[string]T) and the scalar values (strings; "" is the zero value)
KeySeq == <<"a", "b">>
Keys == {KeySeq[i] : i \in DOMAIN KeySeq}
DVals == {"", "d"}
SVals == {"", "s"}

(***************************************************************************)
(* Static types (reflect.Type), by name.                                   *)
(***************************************************************************)
TT ==
  [ str            |-> [kind |-> "string"],
    any            |-> [kind |-> "interface", elem |-> "str"],
    Quantity       |-> [kind |-> "struct",
                        fields |-> << [name |-> "A", exported |-> TRUE,  ty |-> "str"],
                                      [name |-> "i", exported |-> FALSE, ty |-> "str"] >>],
    PtrQuantity    |-> [kind |-> "ptr",   elem |-> "Quantity"],
    SliceQuantity  |-> [kind |-> "slice", elem |-> "Quantity"],
    MapQuantity    |-> [kind |-> "map",   elem |-> "Quantity"],
    PtrStr         |-> [kind |-> "ptr",   elem |-> "str"],
    SlicePtrStr    |-> [kind |-> "slice", elem |-> "PtrStr"],
    ArrayStr       |-> [kind |-> "array", elem |-> "str", len |-> 2],
    foo            |-> [kind |-> "struct",
                        fields |-> << [name |-> "X", exported |-> TRUE, ty |-> "PtrQuantity"],
                                      [name |-> "I", exported |-> TRUE, ty |-> "any"] >>],
    bar            |-> [kind |-> "struct",
                        fields |-> << [name |-> "Z", exported |-> TRUE, ty |-> "SliceQuantity"] >>],
    PtrFoo         |-> [kind |-> "ptr", elem |-> "foo"],
    PtrBar         |-> [kind |-> "ptr", elem |-> "bar"],
    PtrMapQuantity |-> [kind |-> "ptr", elem |-> "MapQuantity"],
    PtrSlicePtrStr |-> [kind |-> "ptr", elem |-> "SlicePtrStr"],
    PtrArrayStr    |-> [kind |-> "ptr", elem |-> "ArrayStr"] ]

\* the types of the values passed as target pointee and as source
RootTypes == {"foo", "bar", "MapQuantity", "SlicePtrStr", "ArrayStr"}

\* reflect.PtrTo
PtrTo(ty) ==
  CASE ty = "foo"         -> "PtrFoo"
    [] ty = "bar"         -> "PtrBar"
    [] ty = "MapQuantity" -> "PtrMapQuantity"
    [] ty = "SlicePtrStr" -> "PtrSlicePtrStr"
    [] ty = "ArrayStr"    -> "PtrArrayStr"
    [] ty = "Quantity"    -> "PtrQuantity"
    [] ty = "str"         -> "PtrStr"

(***************************************************************************)
(* Values.  Pointers, interfaces, slices and maps hold the address of a    *)
(* heap object, 0 when nil.                                                *)
(***************************************************************************)
StrV(x)            == [k |-> "string", s |-> x]
IfaceV(a)          == [k |-> "interface", a |-> a]
PtrV(a)            == [k |-> "ptr", a |-> a]
SliceV(a, n, c)    == [k |-> "slice", a |-> a, len |-> n, cap |-> c]
MapV(a)            == [k |-> "map", a |-> a]
StructV(fs)        == [k |-> "struct", f |-> fs]
ArrayV(es)         == [k |-> "array", e |-> es]
\* heap object behind a non-nil map
HMap(m)            == [k |-> "hmap", m |-> m]

\* reflect.Zero / the zero value reflect.New and reflect.MakeSlice fill with
RECURSIVE Zero(_)
Zero(ty) ==
  LET t == TT[ty] IN
  CASE t.kind = "string"    -> StrV("")
    [] t.kind = "interface" -> IfaceV(0)
    [] t.kind = "ptr"       -> PtrV(0)
    [] t.kind = "slice"     -> SliceV(0, 0, 0)
    [] t.kind = "map"       -> MapV(0)
    [] t.kind = "struct"    -> StructV([i \in 1..Len(t.fields) |-> Zero(t.fields[i].ty)])
    [] t.kind = "array"     -> ArrayV([i \in 1..t.len |-> Zero(t.elem)])

\* the value at path p inside object or value v
RECURSIVE Nav(_, _)
Nav(v, p) ==
  IF p = <<>> THEN v
  ELSE IF v.k = "struct" THEN Nav(v.f[Head(p)], Tail(p))
  ELSE Nav(v.e[Head(p)], Tail(p))

\* v with the value at path p replaced by new
RECURSIVE Upd(_, _, _)
Upd(v, p, new) ==
  IF p = <<>> THEN new
  ELSE IF v.k = "struct" THEN [v EXCEPT !.f[Head(p)] = Upd(@, Tail(p), new)]
  ELSE [v EXCEPT !.e[Head(p)] = Upd(@, Tail(p), new)]

(***************************************************************************)
(* reflect.Value handles.  st is the machine state threaded through a      *)
(* call: the heap and whether the call is still running (ok) or panicked.  *)
(***************************************************************************)
Invalid == [valid |-> FALSE, ty |-> "", addr |-> FALSE, ro |-> FALSE,
            a |-> 0, p |-> <<>>, v |-> <<>>]
Loc(ty, a, p, ro) == [valid |-> TRUE, ty |-> ty, addr |-> TRUE, ro |-> ro,
                      a |-> a, p |-> p, v |-> <<>>]
RVal(ty, v, ro) == [valid |-> TRUE, ty |-> ty, addr |-> FALSE, ro |-> ro,
                    a |-> 0, p |-> <<>>, v |-> v]

Val(h, x)  == IF x.addr THEN Nav(h[x.a], x.p) ELSE x.v
Kind(x)    == IF x.valid THEN TT[x.ty].kind ELSE "invalid"
CanAddr(x) == x.addr
CanSet(x)  == x.addr /\ ~x.ro
IsNil(h, x) == Val(h, x).a = 0
IsZero(h, x) == IF Kind(x) = "string" THEN Val(h, x).s = "" ELSE Val(h, x).a = 0

\* Value.Elem of a pointer
Elem(h, x) ==
  IF IsNil(h, x) THEN Invalid
  ELSE Loc(TT[x.ty].elem, Val(h, x).a, <<>>, x.ro)

\* Value.Field
Field(h, x, i) ==
  LET fd == TT[x.ty].fields[i] IN
  IF x.addr THEN Loc(fd.ty, x.a, Append(x.p, i), x.ro \/ ~fd.exported)
  ELSE RVal(fd.ty, x.v.f[i], x.ro \/ ~fd.exported)

\* Value.Index of an array or a slice
Index(h, x, i) ==
  IF Kind(x) = "slice" THEN Loc(TT[x.ty].elem, Val(h, x).a, <<i>>, x.ro)
  ELSE IF x.addr THEN Loc(TT[x.ty].elem, x.a, Append(x.p, i), x.ro)
  ELSE RVal(TT[x.ty].elem, x.v.e[i], x.ro)

\* Value.Len of a slice or an array
LenOf(h, x) == IF Kind(x) = "slice" THEN Val(h, x).len ELSE TT[x.ty].len

\* the entries of the map x, the empty function for a nil map
MapOf(h, x) == IF IsNil(h, x) THEN <<>> ELSE h[Val(h, x).a].m

\* Value.MapIndex, and MapIter.Value for a key of the map
MapIndex(h, x, key) ==
  IF key \in DOMAIN MapOf(h, x) THEN RVal(TT[x.ty].elem, MapOf(h, x)[key], x.ro)
  ELSE Invalid

Panic(st) == [st EXCEPT !.ok = FALSE]
\* reflect.New / MakeSlice / MakeMap: the new object gets address Len(heap)+1
Alloc(st, obj) == [st EXCEPT !.h = Append(@, obj)]
Top(st) == Len(st.h)

\* Let(v, F) is F(v) with v evaluated once (x := v; F(x))
Only(S) == CHOOSE x \in S : TRUE
Let(v, F(_)) == Only({F(x) : x \in {v}})

\* Value.Set(x, v): panics unless x is settable and v was not obtained
\* through an unexported field
Set(st, x, v, vro) ==
  IF ~st.ok THEN st
  ELSE IF ~CanSet(x) \/ vro THEN Panic(st)
  ELSE [st EXCEPT !.h[x.a] = Upd(@, x.p, v)]

\* Value.SetMapIndex on the map object at address am
SetMapIndex(st, am, key, v, kro) ==
  IF ~st.ok THEN st
  ELSE IF kro THEN Panic(st)
  ELSE [st EXCEPT !.h[am] =
          HMap([x \in DOMAIN @.m \cup {key} |-> IF x = key THEN v ELSE @.m[x]])]

\* exportUnexportedField: the same storage, flagRO cleared
exportUnexportedField(field) == [field EXCEPT !.ro = FALSE]

\* makeAddressable: a fresh holder with a copy of a valid unaddressable value
makeAddressable(st, v) ==
  IF v.valid /\ ~CanAddr(v)
  THEN Let(Alloc(st, Zero(v.ty)), LAMBDA st1 :
         [st |-> Set(st1, Loc(v.ty, Top(st1), <<>>, FALSE), v.v, v.ro),
          rv |-> Loc(v.ty, Top(st1), <<>>, FALSE)])
  ELSE [st |-> st, rv |-> v]

(***************************************************************************)
(* performDeepCopy.  c is the DeepCopy object's configuration together     *)
(* with the order in which this call's map iterations visit the keys.      *)
(***************************************************************************)
RECURSIVE performDeepCopy(_, _, _, _)
RECURSIVE ArrayLoop(_, _, _, _, _)
RECURSIVE SliceLoop(_, _, _, _, _, _, _, _)
RECURSIVE MapLoop(_, _, _, _, _, _)
RECURSIVE StructLoop(_, _, _, _, _)

\* case reflect.Array: for i := 0; i < length; i++
ArrayLoop(st, target, src, c, i) ==
  IF ~st.ok \/ i > LenOf(st.h, src) THEN st
  ELSE Let(performDeepCopy(st, Index(st.h, target, i), Index(st.h, src, i), c),
           LAMBDA st1 : ArrayLoop(st1, target, src, c, i + 1))

\* (the seed copied after the source instead of before it)
SliceItemSeedLast(st, newSlice, target, src, c, tlength, i) ==
  Let(performDeepCopy(st, Index(st.h, newSlice, i), Index(st.h, src, i), c),
      LAMBDA st1 :
        IF i <= tlength
        THEN performDeepCopy(st1, Index(st1.h, newSlice, i), Index(st1.h, target, i), c)
        ELSE st1)
\* case reflect.Slice, the loop body: newSlice[i] is seeded from target[i],
\* then src[i] is copied over it
SliceItem(st, newSlice, target, src, c, tlength, i) ==
  Let(IF i <= tlength
      THEN performDeepCopy(st, Index(st.h, newSlice, i), Index(st.h, target, i), c)
      ELSE st,
      LAMBDA st1 : performDeepCopy(st1, Index(st1.h, newSlice, i), Index(st1.h, src, i), c))

\* case reflect.Slice: for i := 0; i < length; i++
SliceLoop(st, newSlice, target, src, c, length, tlength, i) ==
  IF ~st.ok \/ i > length THEN st
  ELSE Let(SliceItem(st, newSlice, target, src, c, tlength, i),
           LAMBDA st1 : SliceLoop(st1, newSlice, target, src, c, length, tlength, i + 1))

\* (the new item not seeded from the target's item)
MapItemUnseeded(st, newMap, target, src, c, key) ==
  Let(Alloc(st, Zero(TT[src.ty].elem)), LAMBDA st1 :
  Let(makeAddressable(st1, MapIndex(st1.h, src, key)), LAMBDA r3 :
  Let(performDeepCopy(r3.st, Loc(TT[src.ty].elem, Top(st1), <<>>, FALSE), r3.rv, c), LAMBDA st5 :
    IF st5.ok
    THEN SetMapIndex(st5, newMap.v.a, key,
                     Val(st5.h, Loc(TT[src.ty].elem, Top(st1), <<>>, FALSE)), src.ro)
    ELSE st5)))
\* case reflect.Map, the loop body for one key of src: newVal (the cell
\* allocated first) is seeded from the target's item, src's item is copied
\* over it, and the result is stored in newMap
MapItem(st, newMap, target, src, c, key) ==
  Let(Alloc(st, Zero(TT[src.ty].elem)), LAMBDA st1 :
  Let(makeAddressable(st1, MapIndex(st1.h, target, key)), LAMBDA targetVal :
  Let(makeAddressable(targetVal.st, MapIndex(targetVal.st.h, src, key)), LAMBDA srcVal :
  Let(IF targetVal.rv.valid
      THEN performDeepCopy(srcVal.st, Loc(TT[src.ty].elem, Top(st1), <<>>, FALSE),
                           targetVal.rv, c)
      ELSE srcVal.st, LAMBDA st4 :
  Let(performDeepCopy(st4, Loc(TT[src.ty].elem, Top(st1), <<>>, FALSE), srcVal.rv, c),
      LAMBDA st5 :
    IF st5.ok
    THEN SetMapIndex(st5, newMap.v.a, key,
                     Val(st5.h, Loc(TT[src.ty].elem, Top(st1), <<>>, FALSE)), src.ro)
    ELSE st5)))))

\* case reflect.Map: for iter.Next(), visiting src's keys in the order c.ord
MapLoop(st, newMap, target, src, c, i) ==
  IF ~st.ok \/ i > Len(c.ord) THEN st
  ELSE Let(IF c.ord[i] \in DOMAIN MapOf(st.h, src)
           THEN MapItem(st, newMap, target, src, c, c.ord[i])
           ELSE st,
           LAMBDA st1 : MapLoop(st1, newMap, target, src, c, i + 1))

\* (the recursive call's arguments in the wrong order)
StructFieldSwapped(st, tfield, sfield, c) ==
  performDeepCopy(st,
    IF CanAddr(sfield) /\ ~CanSet(sfield) THEN exportUnexportedField(sfield) ELSE sfield,
    IF CanAddr(tfield) /\ ~CanSet(tfield) THEN exportUnexportedField(tfield) ELSE tfield,
    c)
\* case reflect.Struct, the loop body
StructField(st, tfield, sfield, c) ==
  performDeepCopy(st,
    IF CanAddr(tfield) /\ ~CanSet(tfield) THEN exportUnexportedField(tfield) ELSE tfield,
    IF CanAddr(sfield) /\ ~CanSet(sfield) THEN exportUnexportedField(sfield) ELSE sfield,
    c)

\* case reflect.Struct: for i := 0; i < length; i++
StructLoop(st, target, src, c, i) ==
  IF ~st.ok \/ i > Len(TT[src.ty].fields) THEN st
  ELSE Let(StructField(st, Field(st.h, target, i), Field(st.h, src, i), c),
           LAMBDA st1 : StructLoop(st1, target, src, c, i + 1))

\* (a nil source always clears the target)
NilCollectionAlwaysClears(st, target, src, c) == Set(st, target, Zero(src.ty), FALSE)
\* a nil slice or map src:
\* if !d.ignoreZeroValues { target.Set(reflect.Zero(src.Type())) }
NilCollection(st, target, src, c) ==
  IF ~c.ignoreZeroValues THEN Set(st, target, Zero(src.ty), FALSE) ELSE st

\* case reflect.Slice
SliceCase(st, target, src, c) ==
  IF IsNil(st.h, src) THEN NilCollection(st, target, src, c)
  ELSE Let(Alloc(st, ArrayV([i \in 1..LenOf(st.h, src) |-> Zero(TT[src.ty].elem)])),
           LAMBDA st1 :
      Let(SliceLoop(st1, RVal(src.ty, SliceV(Top(st1), LenOf(st.h, src), Val(st.h, src).cap), FALSE),
                    target, src, c, LenOf(st.h, src), LenOf(st.h, target), 1),
          LAMBDA st2 :
            Set(st2, target, SliceV(Top(st1), LenOf(st.h, src), Val(st.h, src).cap), FALSE)))

\* (the new map starts with the target's entries: a merge, not a rebuild)
MakeMapFromTarget(st, target) == Alloc(st, HMap(MapOf(st.h, target)))
\* newMap := reflect.MakeMapWithSize(src.Type(), src.Len())
MakeMap(st, target) == Alloc(st, HMap(<<>>))

\* case reflect.Map
MapCase(st, target, src, c) ==
  IF IsNil(st.h, src) THEN NilCollection(st, target, src, c)
  ELSE Let(MakeMap(st, target), LAMBDA st1 :
       Let(MapLoop(st1, RVal(src.ty, MapV(Top(st1)), FALSE), target, src, c, 1), LAMBDA st2 :
         Set(st2, target, MapV(Top(st1)), FALSE)))

\* if target.IsNil() && !src.IsNil() { target.Set(reflect.New(...)) }
PtrNew(st, target, src) ==
  IF IsNil(st.h, target) /\ ~IsNil(st.h, src)
  THEN Let(Alloc(st, Zero(TT[target.ty].elem)),
           LAMBDA sa : Set(sa, target, PtrV(Top(sa)), FALSE))
  ELSE st

\* (a nil target gets its zeroed object and nothing more)
PtrCaseAllocOnly(st, target, src, c) ==
  IF IsNil(st.h, target) /\ ~IsNil(st.h, src)
  THEN PtrNew(st, target, src)
  ELSE performDeepCopy(st, Elem(st.h, target), Elem(st.h, src), c)
\* (a nil source pointer clears a settable target pointer, as a nil slice does)
PtrCaseNilClears(st, target, src, c) ==
  IF IsNil(st.h, src) /\ CanSet(target)
  THEN NilCollection(st, target, src, c)
  ELSE Let(PtrNew(st, target, src), LAMBDA st1 :
         IF st1.ok
         THEN performDeepCopy(st1, Elem(st1.h, target), Elem(st1.h, src), c)
         ELSE st1)
\* case reflect.Ptr
PtrCase(st, target, src, c) ==
  Let(PtrNew(st, target, src), LAMBDA st1 :
    IF st1.ok
    THEN performDeepCopy(st1, Elem(st1.h, target), Elem(st1.h, src), c)
    ELSE st1)

\* default: every other kind (here strings and interfaces)
DefaultCase(st, target, src, c) ==
  IF ~(c.ignoreZeroValues /\ IsZero(st.h, src))
  THEN Set(st, target, Val(st.h, src), src.ro)
  ELSE st

performDeepCopy(st, target, src, c) ==
  IF ~st.ok THEN st
  ELSE CASE Kind(src) = "invalid" -> st
         [] Kind(src) = "array"   -> ArrayLoop(st, target, src, c, 1)
         [] Kind(src) = "slice"   -> SliceCase(st, target, src, c)
         [] Kind(src) = "map"     -> MapCase(st, target, src, c)
         [] Kind(src) = "struct"  -> StructLoop(st, target, src, c, 1)
         [] Kind(src) = "ptr"     -> PtrCase(st, target, src, c)
         [] OTHER                 -> DefaultCase(st, target, src, c)

(***************************************************************************)
(* Go values as trees, pointers followed: what reflect.DeepEqual compares. *)
(* A nil pointer/interface has some = <<>>, a non-nil one some = <<tree>>. *)
(***************************************************************************)
RECURSIVE Abs(_, _, _)
Abs(h, v, ty) ==
  LET t == TT[ty] IN
  CASE t.kind = "string" -> v
    [] t.kind \in {"interface", "ptr"} ->
         [k |-> t.kind, some |-> IF v.a = 0 THEN <<>> ELSE <<Abs(h, h[v.a], t.elem)>>]
    [] t.kind = "slice" ->
         [k |-> "slice", nil |-> v.a = 0,
          e |-> IF v.a = 0 THEN <<>> ELSE [i \in 1..v.len |-> Abs(h, h[v.a].e[i], t.elem)]]
    [] t.kind = "map" ->
         [k |-> "map", nil |-> v.a = 0,
          m |-> IF v.a = 0 THEN <<>>
                ELSE [x \in DOMAIN h[v.a].m |-> Abs(h, h[v.a].m[x], t.elem)]]
    [] t.kind = "struct" ->
         [k |-> "struct", f |-> [i \in 1..Len(t.fields) |-> Abs(h, v.f[i], t.fields[i].ty)]]
    [] t.kind = "array" ->
         [k |-> "array", e |-> [i \in 1..t.len |-> Abs(h, v.e[i], t.elem)]]

\* the heap objects reachable from value v
RECURSIVE Reach(_, _, _)
Reach(h, v, ty) ==
  LET t == TT[ty] IN
  CASE t.kind = "string" -> {}
    [] t.kind \in {"interface", "ptr"} ->
         IF v.a = 0 THEN {} ELSE {v.a} \cup Reach(h, h[v.a], t.elem)
    [] t.kind = "slice" ->
         IF v.a = 0 THEN {}
         ELSE {v.a} \cup UNION {Reach(h, h[v.a].e[i], t.elem) : i \in 1..v.len}
    [] t.kind = "map" ->
         IF v.a = 0 THEN {}
         ELSE {v.a} \cup UNION {Reach(h, h[v.a].m[x], t.elem) : x \in DOMAIN h[v.a].m}
    [] t.kind = "struct" ->
         UNION {Reach(h, v.f[i], t.fields[i].ty) : i \in 1..Len(t.fields)}
    [] t.kind = "array" ->
         UNION {Reach(h, v.e[i], t.elem) : i \in 1..t.len}

\* the storage of the variable at address a: its cell and all it reaches
Storage(h, a, ty) == IF a = 0 THEN {} ELSE {a} \cup Reach(h, h[a], ty)

(***************************************************************************)
(* The inputs: every value of a type within the bounds, as a tree, and the *)
(* heap that holds it.                                                     *)
(***************************************************************************)
RECURSIVE Gen(_, _)
RECURSIVE GenFields(_, _)
GenFields(fields, vals) ==
  IF fields = <<>> THEN {<<>>}
  ELSE {<<x>> \o q : x \in Gen(Head(fields).ty, vals), q \in GenFields(Tail(fields), vals)}

Gen(ty, vals) ==
  LET t == TT[ty] IN
  CASE t.kind = "string" -> {StrV(x) : x \in vals}
    [] t.kind \in {"interface", "ptr"} ->
         {[k |-> t.kind, some |-> <<>>]}
           \cup {[k |-> t.kind, some |-> <<x>>] : x \in Gen(t.elem, vals)}
    [] t.kind = "slice" ->
         {[k |-> "slice", nil |-> TRUE, e |-> <<>>]}
           \cup {[k |-> "slice", nil |-> FALSE, e |-> q] :
                   q \in UNION {[1..n -> Gen(t.elem, vals)] : n \in 0..MaxLen}}
    [] t.kind = "map" ->
         {[k |-> "map", nil |-> TRUE, m |-> <<>>]}
           \cup {[k |-> "map", nil |-> FALSE, m |-> q] :
                   q \in UNION {[K -> Gen(t.elem, vals)] : K \in SUBSET Keys}}
    [] t.kind = "struct" -> {[k |-> "struct", f |-> q] : q \in GenFields(t.fields, vals)}
    [] t.kind = "array" -> {[k |-> "array", e |-> q] : q \in [1..t.len -> Gen(t.elem, vals)]}

\* Build puts the tree's pointees, backing arrays and maps on the heap and
\* yields the value; BuildList does so for trees[i..] of types tys[i..]
RECURSIVE Build(_, _, _)
RECURSIVE BuildList(_, _, _, _, _)
BuildList(st, trees, tys, i, acc) ==
  IF i > Len(trees) THEN [st |-> st, vs |-> acc]
  ELSE Let(Build(st, trees[i], tys[i]),
           LAMBDA r : BuildList(r.st, trees, tys, i + 1, Append(acc, r.v)))

\* the keys of map tree m, in KeySeq order
KeysOf(m) == SelectSeq(KeySeq, LAMBDA x : x \in DOMAIN m)

Build(st, tree, ty) ==
  CASE TT[ty].kind = "string" -> [st |-> st, v |-> tree]
    [] TT[ty].kind \in {"interface", "ptr"} ->
         IF tree.some = <<>> THEN [st |-> st, v |-> Zero(ty)]
         ELSE Let(Build(st, tree.some[1], TT[ty].elem), LAMBDA r :
              Let(Alloc(r.st, r.v), LAMBDA s1 :
                [st |-> s1, v |-> [k |-> TT[ty].kind, a |-> Top(s1)]]))
    [] TT[ty].kind = "slice" ->
         IF tree.nil THEN [st |-> st, v |-> Zero(ty)]
         ELSE Let(BuildList(st, tree.e, [i \in 1..Len(tree.e) |-> TT[ty].elem], 1, <<>>),
                  LAMBDA r :
              Let(Alloc(r.st, ArrayV(r.vs)), LAMBDA s1 :
                [st |-> s1, v |-> SliceV(Top(s1), Len(tree.e), Len(tree.e))]))
    [] TT[ty].kind = "map" ->
         IF tree.nil THEN [st |-> st, v |-> Zero(ty)]
         ELSE Let(BuildList(st, [i \in 1..Len(KeysOf(tree.m)) |-> tree.m[KeysOf(tree.m)[i]]],
                            [i \in 1..Len(KeysOf(tree.m)) |-> TT[ty].elem], 1, <<>>),
                  LAMBDA r :
              Let(Alloc(r.st, HMap([x \in DOMAIN tree.m |->
                        r.vs[CHOOSE i \in 1..Len(KeysOf(tree.m)) : KeysOf(tree.m)[i] = x]])),
                  LAMBDA s1 : [st |-> s1, v |-> MapV(Top(s1))]))
    [] TT[ty].kind = "struct" ->
         Let(BuildList(st, tree.f, [i \in 1..Len(TT[ty].fields) |-> TT[ty].fields[i].ty], 1, <<>>),
             LAMBDA r : [st |-> r.st, v |-> StructV(r.vs)])
    [] TT[ty].kind = "array" ->
         Let(BuildList(st, tree.e, [i \in 1..TT[ty].len |-> TT[ty].elem], 1, <<>>),
             LAMBDA r : [st |-> r.st, v |-> ArrayV(r.vs)])

\* the variable holding the built value: its address is Top of the result
NewVar(st, tree, ty) == Let(Build(st, tree, ty), LAMBDA r : Alloc(r.st, r.v))

(***************************************************************************)
(* The program: a caller that makes a DeepCopy object for a target,        *)
(* configures it with the fluent setters, calls From up to MaxCalls times, *)
(* and may write through the source afterwards.                            *)
(***************************************************************************)
VARIABLES
  heap,       \* Go memory
  targetArg,  \* the argument of DeepCopyInto: [isPtr, ty, a]; a = 0 is (*ty)(nil)
  srcArg,     \* the argument of From: the variable at address a of type ty, passed
              \* by pointer (byPtr) or by value; a = 0 is (*ty)(nil)
  d,          \* the DeepCopy object
  pc,         \* "start", "ready", "done", "mutated", "panic"
  err,        \* the panic message
  calls,      \* From calls that returned
  pre         \* the heap when the last From call began

vars == <<heap, targetArg, srcArg, d, pc, err, calls, pre>>

NoConfig == [target |-> Invalid, ignoreZeroValues |-> FALSE, ignoreUnexported |-> FALSE]

InitWith(ty, sty, dtree, stree, tIsPtr, tNil, sNil, byPtr) ==
  \E s1 \in {IF tNil THEN [h |-> <<>>, ok |-> TRUE]
               ELSE NewVar([h |-> <<>>, ok |-> TRUE], dtree, ty)} :
  \E s2 \in {IF sNil THEN s1 ELSE NewVar(s1, stree, sty)} :
      /\ heap = s2.h
      /\ targetArg = [isPtr |-> tIsPtr, ty |-> ty, a |-> IF tNil THEN 0 ELSE Top(s1)]
      /\ srcArg = [ty |-> sty, a |-> IF sNil THEN 0 ELSE Top(s2), byPtr |-> byPtr \/ sNil]
      /\ d = NoConfig
      /\ pc = "start"
      /\ err = ""
      /\ calls = 0
      /\ pre = s2.h

Init ==
  \E ty \in RootTypes :
    \/ \E dtree \in Gen(ty, DVals), stree \in Gen(ty, SVals),
          tNil \in BOOLEAN, sNil \in BOOLEAN, byPtr \in BOOLEAN :
         InitWith(ty, ty, dtree, stree, TRUE, tNil, sNil, byPtr)
    \/ \E sty \in RootTypes \ {ty}, byPtr \in BOOLEAN :
         InitWith(ty, sty, Abs(<<>>, Zero(ty), ty), Abs(<<>>, Zero(sty), sty),
                  TRUE, FALSE, FALSE, byPtr)
    \/ InitWith(ty, ty, Abs(<<>>, Zero(ty), ty), Abs(<<>>, Zero(ty), ty),
                FALSE, FALSE, FALSE, TRUE)

\* func DeepCopyInto(target interface{}) *DeepCopy
DeepCopyInto ==
  /\ pc = "start"
  /\ IF ~targetArg.isPtr
     THEN /\ pc' = "panic"
          /\ err' = "cannot mutate target"
          /\ d' = d
     ELSE /\ pc' = "ready"
          /\ err' = err
          /\ d' = [target |-> RVal(PtrTo(targetArg.ty), PtrV(targetArg.a), FALSE),
                   ignoreZeroValues |-> FALSE, ignoreUnexported |-> FALSE]
  /\ UNCHANGED <<heap, targetArg, srcArg, calls, pre>>

\* func (d *DeepCopy) SetIgnoreZeroValues(ignoreZeroValues bool) *DeepCopy
SetIgnoreZeroValues ==
  /\ pc = "ready"
  /\ \E ignoreZeroValues \in BOOLEAN : d' = [d EXCEPT !.ignoreZeroValues = ignoreZeroValues]
  /\ UNCHANGED <<heap, targetArg, srcArg, pc, err, calls, pre>>

\* func (d *DeepCopy) SetIgnoreUnexported(ignoreUnexported bool) *DeepCopy
SetIgnoreUnexported ==
  /\ pc = "ready"
  /\ \E ignoreUnexported \in BOOLEAN : d' = [d EXCEPT !.ignoreUnexported = ignoreUnexported]
  /\ UNCHANGED <<heap, targetArg, srcArg, pc, err, calls, pre>>

\* the orders a map iteration may visit the keys in
KeyOrders == {q \in [1..Len(KeySeq) -> Keys] : \A i, j \in 1..Len(KeySeq) : i # j => q[i] # q[j]}

\* func (d *DeepCopy) From(src interface{}), its map iterations visiting the
\* keys in order ord
FromCall(ord) ==
  \* Cast T to *T
  Let(IF srcArg.byPtr THEN [h |-> heap, ok |-> TRUE]
      ELSE Let(Alloc([h |-> heap, ok |-> TRUE], Zero(srcArg.ty)), LAMBDA sa :
             Set(sa, Loc(srcArg.ty, Top(sa), <<>>, FALSE), heap[srcArg.a], FALSE)),
      LAMBDA s1 :
        IF d.target.ty # PtrTo(srcArg.ty)
        THEN [st |-> s1, msg |-> "different types between target and source"]
        ELSE Let(performDeepCopy(s1, d.target,
                   RVal(PtrTo(srcArg.ty),
                        PtrV(IF srcArg.byPtr THEN srcArg.a ELSE Top(s1)), FALSE),
                   [ignoreZeroValues |-> d.ignoreZeroValues,
                    ignoreUnexported |-> d.ignoreUnexported, ord |-> ord]),
                 LAMBDA s2 :
                   [st |-> s2,
                    msg |-> IF s2.ok THEN ""
                            ELSE "reflect: reflect.Value.Set using unaddressable value"]))

From ==
  /\ pc \in {"ready", "done"}
  /\ calls < MaxCalls
  /\ \E ord \in KeyOrders :
       \E r \in {FromCall(ord)} :
           /\ heap' = r.st.h
           /\ err' = r.msg
           /\ pc' = IF r.msg = "" THEN "done" ELSE "panic"
           /\ calls' = IF r.msg = "" THEN calls + 1 ELSE calls
  /\ pre' = heap
  /\ UNCHANGED <<targetArg, srcArg, d>>

\* every string in object or value v overwritten
RECURSIVE Scribble(_)
Scribble(v) ==
  CASE v.k = "string" -> StrV("w")
    [] v.k = "struct" -> StructV([i \in DOMAIN v.f |-> Scribble(v.f[i])])
    [] v.k = "array"  -> ArrayV([i \in DOMAIN v.e |-> Scribble(v.e[i])])
    [] v.k = "hmap"   -> HMap([x \in DOMAIN v.m |-> Scribble(v.m[x])])
    [] OTHER -> v

\* the caller, after From returned, writes through the source: to its
\* fields, pointees, slice elements and map entries
MutateSource ==
  /\ pc = "done"
  /\ srcArg.a # 0
  /\ heap' = [a \in DOMAIN heap |->
                IF a \in Storage(heap, srcArg.a, srcArg.ty) THEN Scribble(heap[a]) ELSE heap[a]]
  /\ pc' = "mutated"
  /\ pre' = heap
  /\ UNCHANGED <<targetArg, srcArg, d, err, calls>>

Next ==
  \/ DeepCopyInto
  \/ SetIgnoreZeroValues
  \/ SetIgnoreUnexported
  \/ From
  \/ MutateSource

Spec == Init /\ [][Next]_vars

(***************************************************************************)
(* Positions.  A path is a sequence of steps from the root of a value:     *)
(* into a struct field, through a pointer, to a slice or array index, to a *)
(* map key.  Matched(ty, x, y) are the paths present in both trees x and y.*)
(***************************************************************************)
FieldStep(i) == [s |-> "field", i |-> i, key |-> ""]
DerefStep    == [s |-> "deref", i |-> 0, key |-> ""]
IndexStep(i) == [s |-> "index", i |-> i, key |-> ""]
KeyStep(x)   == [s |-> "key",   i |-> 0, key |-> x]

RECURSIVE Matched(_, _, _)
Matched(ty, x, y) ==
  LET t == TT[ty]
      Under(step, sub) == {<<step>> \o q : q \in sub}
  IN  {<<>>} \cup
      CASE t.kind = "struct" ->
             UNION {Under(FieldStep(i), Matched(t.fields[i].ty, x.f[i], y.f[i])) :
                      i \in 1..Len(t.fields)}
        [] t.kind = "ptr" ->
             IF x.some # <<>> /\ y.some # <<>>
             THEN Under(DerefStep, Matched(t.elem, x.some[1], y.some[1]))
             ELSE {}
        [] t.kind = "slice" ->
             UNION {Under(IndexStep(i), Matched(t.elem, x.e[i], y.e[i])) :
                      i \in (1..Len(x.e)) \cap (1..Len(y.e))}
        [] t.kind = "map" ->
             UNION {Under(KeyStep(k), Matched(t.elem, x.m[k], y.m[k])) :
                      k \in (DOMAIN x.m) \cap (DOMAIN y.m)}
        [] t.kind = "array" ->
             UNION {Under(IndexStep(i), Matched(t.elem, x.e[i], y.e[i])) : i \in 1..t.len}
        [] OTHER -> {}

\* the type at path p of a value of type ty
RECURSIVE TypeAt(_, _)
TypeAt(ty, p) ==
  IF p = <<>> THEN ty
  ELSE IF Head(p).s = "field" THEN TypeAt(TT[ty].fields[Head(p).i].ty, Tail(p))
  ELSE TypeAt(TT[ty].elem, Tail(p))
KindAt(ty, p) == TT[TypeAt(ty, p)].kind

\* whether tree x has path p, and the subtree there
RECURSIVE Has(_, _)
Has(x, p) ==
  IF p = <<>> THEN TRUE
  ELSE LET st == Head(p) IN
       CASE st.s = "field" -> Has(x.f[st.i], Tail(p))
         [] st.s = "deref" -> x.some # <<>> /\ Has(x.some[1], Tail(p))
         [] st.s = "index" -> st.i \in 1..Len(x.e) /\ Has(x.e[st.i], Tail(p))
         [] st.s = "key"   -> st.key \in DOMAIN x.m /\ Has(x.m[st.key], Tail(p))
RECURSIVE At(_, _)
At(x, p) ==
  IF p = <<>> THEN x
  ELSE LET st == Head(p) IN
       CASE st.s = "field" -> At(x.f[st.i], Tail(p))
         [] st.s = "deref" -> At(x.some[1], Tail(p))
         [] st.s = "index" -> At(x.e[st.i], Tail(p))
         [] st.s = "key"   -> At(x.m[st.key], Tail(p))

\* the value stored at path p from value v in heap h
RECURSIVE HeapAt(_, _, _)
HeapAt(h, v, p) ==
  IF p = <<>> THEN v
  ELSE LET st == Head(p) IN
       CASE st.s = "field" -> HeapAt(h, v.f[st.i], Tail(p))
         [] st.s = "deref" -> HeapAt(h, h[v.a], Tail(p))
         [] st.s = "index" -> HeapAt(h, IF v.k = "slice" THEN h[v.a].e[st.i] ELSE v.e[st.i], Tail(p))
         [] st.s = "key"   -> HeapAt(h, h[v.a].m[st.key], Tail(p))

\* a position reached through struct fields and pointers alone
Direct(p) == \A i \in 1..Len(p) : p[i].s \in {"field", "deref"}
\* a position that is an unexported struct field
Unexported(ty, p) ==
  /\ p # <<>>
  /\ p[Len(p)].s = "field"
  /\ ~TT[TypeAt(ty, SubSeq(p, 1, Len(p) - 1))].fields[p[Len(p)].i].exported

\* a nil pointer, interface, slice or map; the zero value of a scalar
NilTree(x)  == IF x.k \in {"slice", "map"} THEN x.nil ELSE x.some = <<>>
ZeroTree(x) == IF x.k = "string" THEN x.s = "" ELSE NilTree(x)

(***************************************************************************)
(* The last From call: it returned, with destination D and source S both   *)
(* present; their values before (in pre) and after (in heap).              *)
(***************************************************************************)
Returned == pc = "done" /\ targetArg.a # 0 /\ srcArg.a # 0
T    == targetArg.ty
D0   == Abs(pre, pre[targetArg.a], T)
S0   == Abs(pre, pre[srcArg.a], T)
D1   == Abs(heap, heap[targetArg.a], T)
S1   == Abs(heap, heap[srcArg.a], T)
Pos  == Matched(T, D0, S0)
Defaults == ~d.ignoreZeroValues /\ ~d.ignoreUnexported
Disjoint(h) ==
  Storage(h, targetArg.a, targetArg.ty) \cap Storage(h, srcArg.a, srcArg.ty) = {}

(***************************************************************************)
(* The claims.                                                             *)
(***************************************************************************)

\* C1, as stated: with both options at their defaults, after From(S) the
\* destination D is deeply equal to S, whatever D held before the call.
C1_DeepEqual == (Returned /\ Defaults) => D1 = S0

\* no pointer of S is nil where D's pointer on the same path is non-nil
NoNilOverNonNil ==
  \A p \in Pos : KindAt(T, p) = "ptr" => ~(NilTree(At(S0, p)) /\ ~NilTree(At(D0, p)))

\* C1, amended: with both options at their defaults, after From(S) the
\* destination D is deeply equal to S, provided no pointer of S is nil where
\* D's pointer at the same path is non-nil.
C1_DeepEqualUnlessNilOverNonNil == (Returned /\ Defaults /\ NoNilOverNonNil) => D1 = S0

\* a first call with defaults that copied a non-nil pointer of S into a D
\* that differed from S
C1_Witness ==
  /\ Returned /\ Defaults /\ NoNilOverNonNil /\ calls = 1
  /\ T = "foo" /\ ~NilTree(At(S0, <<FieldStep(1)>>))
  /\ D0 # S0

\* C2, as stated: when D's and S's storage is disjoint before the call, then
\* after From(S) nothing reachable from D is reachable from S, and a later
\* write through S leaves every value reachable from D unchanged.
C2_NoSharedStorage ==
  /\ (Returned /\ Disjoint(pre)) => Disjoint(heap)
  /\ (pc = "mutated" /\ calls = 1 /\ targetArg.a # 0)
       => Abs(heap, heap[targetArg.a], T) = Abs(pre, pre[targetArg.a], T)

\* C3, as stated: an unexported field at a matched position holds S's value
\* after From(S) when ignoreUnexported is false (and zero values are not
\* ignored), and still holds D's earlier value when ignoreUnexported is true.
C3_Unexported ==
  Returned =>
    \A p \in Pos : Unexported(T, p) =>
      /\ Has(D1, p)
      /\ (~d.ignoreUnexported /\ ~d.ignoreZeroValues) => At(D1, p) = At(S0, p)
      /\ d.ignoreUnexported => At(D1, p) = At(D0, p)

\* C4: with ignoreZeroValues, every scalar position present in both D and S
\* holds, after From(S), S's value when that is non-zero and D's earlier
\* value when S's is zero, also inside re-allocated slice elements and map
\* values.
C4_IgnoreZeroPerPosition ==
  (Returned /\ d.ignoreZeroValues) =>
    \A p \in Pos : KindAt(T, p) \in {"string", "interface"} =>
      /\ Has(D1, p)
      /\ At(D1, p) = IF ZeroTree(At(S0, p)) THEN At(D0, p) ELSE At(S0, p)

\* inside a map value or slice element, one field kept from D because S's is
\* zero and one field overwritten by S's non-zero value
C4_Witness ==
  /\ Returned /\ d.ignoreZeroValues
  /\ \E p, q \in Pos :
       /\ KindAt(T, p) = "string" /\ KindAt(T, q) = "string"
       /\ ~Direct(p) /\ ~Direct(q)
       /\ ZeroTree(At(S0, p)) /\ ~ZeroTree(At(D0, p))
       /\ ~ZeroTree(At(S0, q)) /\ ~ZeroTree(At(D0, q))

\* C5: where S's slice or map at a matched position is nil, D's is left as
\* it was when ignoreZeroValues is set, and is nil after From otherwise.
C5_NilCollection ==
  Returned =>
    \A p \in Pos : (KindAt(T, p) \in {"slice", "map"} /\ NilTree(At(S0, p))) =>
      /\ Has(D1, p)
      /\ IF d.ignoreZeroValues THEN At(D1, p) = At(D0, p) ELSE NilTree(At(D1, p))

\* a nil slice or map of S met a non-empty one of D
C5_Witness ==
  /\ Returned
  /\ \E p \in Pos :
       /\ KindAt(T, p) \in {"slice", "map"}
       /\ NilTree(At(S0, p))
       /\ ~NilTree(At(D0, p))
       /\ At(D0, p) \notin {[k |-> "slice", nil |-> FALSE, e |-> <<>>],
                            [k |-> "map", nil |-> FALSE, m |-> <<>>]}

\* C6: where S's slice or map at a matched position is non-nil, D's has S's
\* shape after From: the same length, the same key set.
C6_SourceShape ==
  Returned =>
    \A p \in Pos : (KindAt(T, p) \in {"slice", "map"} /\ ~NilTree(At(S0, p))) =>
      /\ Has(D1, p)
      /\ ~NilTree(At(D1, p))
      /\ KindAt(T, p) = "slice" => Len(At(D1, p).e) = Len(At(S0, p).e)
      /\ KindAt(T, p) = "map" => DOMAIN At(D1, p).m = DOMAIN At(S0, p).m

\* D's map had a key S's has not, and S's a key D's had not
C6_Witness ==
  /\ Returned
  /\ \E p \in Pos :
       /\ KindAt(T, p) = "map"
       /\ ~NilTree(At(S0, p))
       /\ (DOMAIN At(D0, p).m) \ (DOMAIN At(S0, p).m) # {}
       /\ (DOMAIN At(S0, p).m) \ (DOMAIN At(D0, p).m) # {}

\* C7: From does not mutate the source: when S's storage is disjoint from
\* D's, every object reachable from S is after From(S) as it was before.
C7_SourceUnchanged ==
  (pc = "done" /\ srcArg.a # 0 /\ Disjoint(pre)) =>
    \A a \in Storage(pre, srcArg.a, srcArg.ty) : heap[a] = pre[a]

\* a call that changed D, from a source that owns heap objects
C7_Witness ==
  /\ Returned /\ Disjoint(pre)
  /\ D1 # D0
  /\ Cardinality(Storage(pre, srcArg.a, srcArg.ty)) > 1

\* C8, as stated: the only failures are the two precondition panics:
\* DeepCopyInto panics exactly when its argument is not a pointer, From
\* exactly when the source's type differs from the target's, and in every
\* other case From returns normally.
C8_OnlyPreconditionPanics ==
  /\ (err = "cannot mutate target") <=> (pc # "start" /\ ~targetArg.isPtr)
  /\ (err = "different types between target and source")
       <=> (pc \notin {"start", "ready"} /\ targetArg.isPtr /\ targetArg.ty # srcArg.ty)
  /\ pc = "panic" =>
       err \in {"cannot mutate target", "different types between target and source"}

\* C9: a second From(S) in succession, under the same options, leaves D
\* deeply equal to what the first left.
C9_Idempotent == (Returned /\ calls >= 2) => D1 = D0

\* a second call returned on a D that the first call merged from D and S
C9_Witness ==
  /\ Returned /\ calls = 2 /\ T = "foo"
  /\ Has(D1, <<FieldStep(1), DerefStep>>)
  /\ At(D1, <<FieldStep(1), DerefStep, FieldStep(1)>>) = StrV("s")
  /\ At(D1, <<FieldStep(1), DerefStep, FieldStep(2)>>) = StrV("d")

\* C10: at a pointer position where S's pointer is nil and D's is not, From
\* leaves D's pointer and its referent as they were (the same pointer where
\* the position is not inside a rebuilt slice or map, an equal referent
\* there); where D's pointer is nil and S's is not, D gets a referent
\* allocated by the call and equal to S's.
C10_PtrPositions ==
  Returned =>
    \A p \in Pos : KindAt(T, p) = "ptr" =>
      /\ (NilTree(At(S0, p)) /\ ~NilTree(At(D0, p))) =>
           /\ Has(D1, p)
           /\ At(D1, p) = At(D0, p)
           /\ Direct(p) =>
                LET a == HeapAt(pre, pre[targetArg.a], p).a
                IN  HeapAt(heap, heap[targetArg.a], p).a = a /\ heap[a] = pre[a]
      /\ (NilTree(At(D0, p)) /\ ~NilTree(At(S0, p))) =>
           /\ Has(D1, p)
           /\ ~NilTree(At(D1, p))
           /\ HeapAt(heap, heap[targetArg.a], p).a > Len(pre)
           /\ At(D1, p) = At(S0, p)

\* with zero values not ignored, a nil pointer of S met a non-nil pointer of
\* D in a struct field
C10_Witness ==
  /\ Returned /\ ~d.ignoreZeroValues
  /\ \E p \in Pos :
       /\ KindAt(T, p) = "ptr" /\ Direct(p)
       /\ NilTree(At(S0, p)) /\ ~NilTree(At(D0, p))

====
